---------------------------- MODULE Spec2Model ----------------------------
(***************************************************************************)
(* Model of the in-memory session store of package ram (src/ram/ram.go):   *)
(* the sessionServer goroutine that owns the session table, the Store      *)
(* facade (Create, Restore, Destroy, Period), the Session value            *)
(* operations (Set, Get, Del) and the sweep timer started by startTimer.   *)
(*                                                                         *)
(* Time is counted in seconds.  The channel `commands` and every reply     *)
(* channel are unbuffered, so a send and its receive are one joint step:   *)
(* the step in which a caller submits a command is the step in which the   *)
(* server takes it and runs its handler; the step in which the server      *)
(* sends on c.result is the step in which the caller receives.             *)
(*                                                                         *)
(* A Go map is a reference: every copy of a Session shares the valueStore  *)
(* of the table entry it was copied from.  `heap` holds the maps, a        *)
(* Session holds a reference into it.                                      *)
(***************************************************************************)
EXTENDS Integers, Sequences, FiniteSets, TLC

\* ------------------------------------------------------------- bounds
NIds == 3
NCallers == 2
NKeys == 2
NValues == 2
MaxPeriods == 1

\* ---------------------------------------------------- program constants
divisor == 2
defaultPeriod == 20
Second == 1
Minute == 60 * Second

\* ------------------------------------------------------------- inputs
Ids == 1..NIds                      \* well-formed session ids
InvalidIds == {0}                   \* ids whose Variant() is uuid.Invalid
AnyId == Ids \cup InvalidIds
Callers == 1..NCallers              \* client goroutines
Keys == 1..NKeys
Values == 1..NValues
MaxAges == {-1, 0, 1}               \* Create's maxage argument, in seconds
Periods == {10 * Minute}            \* arguments given to Period
Horizon == MaxPeriods * defaultPeriod * Minute   \* the clock stops here
ClockHorizon == Horizon + defaultPeriod * Minute \* and here in ClockSpec
Refs == 1..(NIds + NCallers + 1)    \* addresses of value stores
NoValue == 0                        \* no value: nil, a key the map lacks
EmptyMap == [k \in Keys |-> NoValue]
Timer == NCallers + 1               \* owner of startTimer's reply channel

\* ------------------------------------------------------------- errors
ErrNoSession == "session does not exist"
ErrPoorForm == "poorly formed uuid"
ErrTimedOut == "session timed out"
ErrNoData == "data not found in session"
Nil == "nil"

VARIABLES
    sessions,   \* Store.sessions: id -> Session
    array,      \* Store.array: sequence of ids
    index,      \* Store.index
    period,     \* Store.period
    heap,       \* the value stores: reference -> (key -> value)
    apc,        \* sessionServer: "recv" (at the range over commands) or
                \* "reply" (at the send on c.result)
    cur,        \* the command the server is serving
    result,     \* the Session the server is about to send on c.result
    pc,         \* per caller: position inside the facade call it runs
    op,         \* per caller: the call it runs and its arguments
    s,          \* per caller: the receiver copy `s` inside Set/Get/Del
    issued,     \* the ids of the active Session values Create and Restore
                \* have returned to the client program
    ret,        \* what the call that returned last returned, and to whom
    raced,      \* callers whose map write overlapped another map access
    tpc,        \* timer goroutine: "start", "sleep" or "wait"
    wake,       \* time at which the timer's Sleep ends
    now,        \* the clock
    crashed     \* the runtime has stopped the process (fatal error)

vars == <<sessions, array, index, period, heap, apc, cur, result, pc, op,
          s, issued, ret, raced, tpc, wake, now, crashed>>

\* The zero value Session{}.
ZeroSession ==
    [id |-> 0, data |-> 0, created |-> 0, modified |-> 0, index |-> 0,
     sto |-> FALSE, maxage |-> 0, active |-> FALSE]

\* The Session values a client can hold: an active copy of a table entry,
\* returned by Create or Restore for an id in `issued`, or the zero
\* Session (hid = 0).  Of a held Session the methods read id, sto and
\* active before they ask the server again.
Handle(hid) ==
    IF hid \in issued THEN [id |-> hid, sto |-> TRUE, active |-> TRUE]
    ELSE [id |-> 0, sto |-> FALSE, active |-> FALSE]
Handles == issued \cup {0}

\* What Set, Get and Del keep of the Session Store.touch returned to them
\* (`s = s.sto.touch(s.id)`): the fields they read afterwards.
ReceiverOf(se) == [id |-> se.id, data |-> se.data, active |-> se.active]

\* uuid.UUID.Variant() == uuid.Invalid
Invalid(sid) == sid \in InvalidIds

\* The table as one value, for the handlers below.
Table(se, ar, ix) == [sessions |-> se, array |-> ar, index |-> ix]

\* delete(m, key) and m[key] = v on a Go map with keys of type K.
MapDelete(f, key) == [k \in DOMAIN f \ {key} |-> f[k]]
MapPut(f, key, v) == [k \in DOMAIN f \cup {key} |-> IF k = key THEN v ELSE f[k]]

\* ---------------------------------------------------------------- heap
\* The value stores some Session still refers to: those of the table, of
\* the receiver copies inside running Set/Get/Del calls and of the reply
\* in flight.
Live(se, loc, res) ==
    ({se[i].data : i \in DOMAIN se} \cup {loc[c].data : c \in Callers}
        \cup {res.data}) \ {0}

\* Garbage collection: a map no Session refers to no longer exists, and
\* its address may be handed out again.
Collect(hp, live) == [m \in Refs |-> IF m \in live THEN hp[m] ELSE EmptyMap]

\* make(valueStore): the address of a fresh, empty map.  Any free address
\* will do; the one numbered like the key is taken when it is free.
NewMap(key, live) ==
    IF key \notin live THEN key
    ELSE CHOOSE m \in Refs \ live : \A n \in Refs \ live : m <= n

\* ------------------------------------------------------------ handlers
\* Mutant: the indices of the moved ids are left as they were.
CorrectIndexSkipped(se, moved) == se

\* Store.destroy, the loop "Correct the index of all moved sid's": the
\* ids of s.array[se.index:], one after the other.
RECURSIVE CorrectIndex(_, _)
CorrectIndex(se, moved) ==
    IF moved = <<>> THEN se
    ELSE LET uuid == Head(moved)
             e == IF uuid \in DOMAIN se THEN se[uuid] ELSE ZeroSession
         IN CorrectIndex(MapPut(se, uuid, [e EXCEPT !.index = @ - 1]),
                         Tail(moved))

\* s.array = append(s.array[:i], s.array[i+1:]...)
Splice(ar, i) == SubSeq(ar, 1, i) \o SubSeq(ar, i + 2, Len(ar))

\* Mutant: `s.index--` is missing.
destroyKeepsCount(T, key) ==
    IF key \notin DOMAIN T.sessions THEN T
    ELSE LET se == T.sessions[key]
             ar == Splice(T.array, se.index)
             moved == SubSeq(ar, se.index + 1, Len(ar))
         IN Table(MapDelete(CorrectIndex(T.sessions, moved), key),
                  ar, T.index)

\* Mutant: the correction starts one position late
\* (`s.array[se.index+1:]`).
destroyCorrectsLate(T, key) ==
    IF key \notin DOMAIN T.sessions THEN T
    ELSE LET se == T.sessions[key]
             ar == Splice(T.array, se.index)
             moved == SubSeq(ar, se.index + 2, Len(ar))
         IN Table(MapDelete(CorrectIndex(T.sessions, moved), key),
                  ar, T.index - 1)

\* Mutant: `delete(s.sessions, key)` is missing.
destroyKeepsEntry(T, key) ==
    IF key \notin DOMAIN T.sessions THEN T
    ELSE LET se == T.sessions[key]
             ar == Splice(T.array, se.index)
             moved == SubSeq(ar, se.index + 1, Len(ar))
         IN Table(CorrectIndex(T.sessions, moved), ar, T.index - 1)

\* Store.destroy(key): the table after it.
destroy(T, key) ==
    IF key \notin DOMAIN T.sessions THEN T
    ELSE LET se == T.sessions[key]
             ar == Splice(T.array, se.index)
             moved == SubSeq(ar, se.index + 1, Len(ar))
         IN Table(MapDelete(CorrectIndex(T.sessions, moved), key),
                  ar, T.index - 1)

\* Mutant: only a maxage of zero takes the default (`== 0` for `<= 0`).
createDefaultsZero(T, key, maxage, per, t, ref) ==
    IF key \in DOMAIN T.sessions
    THEN [tbl |-> T, res |-> ZeroSession, made |-> 0]
    ELSE LET se == [id |-> key, data |-> ref, created |-> t, modified |-> t,
                    index |-> T.index, sto |-> TRUE,
                    maxage |-> IF maxage = 0 THEN per \div divisor
                               ELSE maxage,
                    active |-> TRUE]
         IN [tbl |-> Table(MapPut(T.sessions, key, se),
                           Append(T.array, key), T.index + 1),
             res |-> se, made |-> ref]

\* Mutant: the check for an id already in use is missing.
createOverwrites(T, key, maxage, per, t, ref) ==
    LET se == [id |-> key, data |-> ref, created |-> t, modified |-> t,
               index |-> T.index, sto |-> TRUE,
               maxage |-> IF maxage <= 0 THEN per \div divisor ELSE maxage,
               active |-> TRUE]
    IN [tbl |-> Table(MapPut(T.sessions, key, se),
                      Append(T.array, key), T.index + 1),
        res |-> se, made |-> ref]

\* command.create: the table after it, the Session it returns and the
\* address of the map it made (0 when it made none).
create(T, key, maxage, per, t, ref) ==
    IF key \in DOMAIN T.sessions
    THEN [tbl |-> T, res |-> ZeroSession, made |-> 0]
    ELSE LET se == [id |-> key, data |-> ref, created |-> t, modified |-> t,
                    index |-> T.index, sto |-> TRUE,
                    maxage |-> IF maxage <= 0 THEN per \div divisor
                               ELSE maxage,
                    active |-> TRUE]
         IN [tbl |-> Table(MapPut(T.sessions, key, se),
                           Append(T.array, key), T.index + 1),
             res |-> se, made |-> ref]

\* command.retrieve: the Session it returns (the table is not written).
retrieve(T, key, maxage) ==
    IF key \in DOMAIN T.sessions
    THEN [T.sessions[key] EXCEPT !.maxage = maxage]
    ELSE ZeroSession

\* Mutant: the check that the id is in the table is missing, and the
\* counter is decremented for an id that was never there.
cmdDestroyUnchecked(T, key) ==
    IF key \in DOMAIN T.sessions THEN destroy(T, key)
    ELSE Table(T.sessions, T.array, T.index - 1)

\* command.destroy: the table after it.
cmdDestroy(T, key) ==
    IF key \in DOMAIN T.sessions THEN destroy(T, key) ELSE T

\* Mutant: the Session returned refers to a copy of the value store, not
\* to the store of the table's entry.
touchCopies(T, key, t) ==
    IF key \in DOMAIN T.sessions
    THEN LET se == [T.sessions[key] EXCEPT !.modified = t]
             copy == CHOOSE m \in Refs : m # se.data
         IN [tbl |-> Table(MapPut(T.sessions, key, se), T.array, T.index),
             res |-> [se EXCEPT !.data = copy]]
    ELSE [tbl |-> T, res |-> ZeroSession]

\* Mutant: the entry's maxage is reset from the command, as
\* command.retrieve does with its copy, and written back.
touchResetsMaxage(T, key, t) ==
    IF key \in DOMAIN T.sessions
    THEN LET se == [T.sessions[key] EXCEPT !.modified = t, !.maxage = 0]
         IN [tbl |-> Table(MapPut(T.sessions, key, se), T.array, T.index),
             res |-> se]
    ELSE [tbl |-> T, res |-> ZeroSession]

\* Mutant: a session whose idle time exceeds its maxage is not served.
touchChecksExpiry(T, key, t) ==
    IF key \in DOMAIN T.sessions
          /\ t - T.sessions[key].modified <= T.sessions[key].maxage
    THEN LET se == [T.sessions[key] EXCEPT !.modified = t]
         IN [tbl |-> Table(MapPut(T.sessions, key, se), T.array, T.index),
             res |-> se]
    ELSE [tbl |-> T, res |-> ZeroSession]

\* Mutant: the copy gets the new time and is returned, but is not written
\* back (`c.seStore.sessions[c.key] = s` is missing).
touchNotStored(T, key, t) ==
    IF key \in DOMAIN T.sessions
    THEN [tbl |-> T, res |-> [T.sessions[key] EXCEPT !.modified = t]]
    ELSE [tbl |-> T, res |-> ZeroSession]

\* Mutant: the entry is written back without the check that it exists.
touchWritesBack(T, key, t) ==
    LET e == IF key \in DOMAIN T.sessions THEN T.sessions[key]
             ELSE ZeroSession
        se == [e EXCEPT !.modified = t]
    IN [tbl |-> Table(MapPut(T.sessions, key, se), T.array, T.index),
        res |-> se]

\* command.touch: the table after it and the Session it returns.
touch(T, key, t) ==
    IF key \in DOMAIN T.sessions
    THEN LET se == [T.sessions[key] EXCEPT !.modified = t]
         IN [tbl |-> Table(MapPut(T.sessions, key, se), T.array, T.index),
             res |-> se]
    ELSE [tbl |-> T, res |-> ZeroSession]

\* Mutant: a session is removed as soon as its idle time reaches maxage.
RECURSIVE timeoutAtMaxage(_, _, _)
timeoutAtMaxage(T, order, t) ==
    IF order = <<>> THEN T
    ELSE LET key == Head(order)
         IN IF key \notin DOMAIN T.sessions
            THEN timeoutAtMaxage(T, Tail(order), t)
            ELSE LET se == T.sessions[key]
                 IN timeoutAtMaxage(IF t - se.modified >= se.maxage
                                    THEN destroy(T, key) ELSE T,
                                    Tail(order), t)

\* Mutant: the loop ends after the first session it destroys.
RECURSIVE timeoutOnce(_, _, _)
timeoutOnce(T, order, t) ==
    IF order = <<>> THEN T
    ELSE LET key == Head(order)
         IN IF key \notin DOMAIN T.sessions
            THEN timeoutOnce(T, Tail(order), t)
            ELSE LET se == T.sessions[key]
                 IN IF t - se.modified > se.maxage
                    THEN destroy(T, key)
                    ELSE timeoutOnce(T, Tail(order), t)

\* command.timeout: the range over s.sessions visits the keys in an order
\* the runtime chooses; a key deleted before it is reached is not visited.
RECURSIVE timeout(_, _, _)
timeout(T, order, t) ==
    IF order = <<>> THEN T
    ELSE LET key == Head(order)
         IN IF key \notin DOMAIN T.sessions
            THEN timeout(T, Tail(order), t)
            ELSE LET se == T.sessions[key]
                 IN timeout(IF t - se.modified > se.maxage
                            THEN destroy(T, key) ELSE T,
                            Tail(order), t)

\* The orders in which a range over a map with these keys may run.
Orders(keys) ==
    {o \in [1..Cardinality(keys) -> keys] : \A k \in keys : \E i \in DOMAIN o : o[i] = k}

\* ------------------------------------------------------------- helpers
CurTable == Table(sessions, array, index)

Install(T) ==
    /\ sessions' = T.sessions
    /\ array' = T.array
    /\ index' = T.index

NoCmd == [cmd |-> "none", key |-> 0, maxage |-> 0, result |-> 0]
NoOp == [name |-> "none", key |-> 0, value |-> 0]
Returned(c, name, err, value) ==
    [caller |-> c, op |-> name, err |-> err, value |-> value]

\* A facade call that returns before it sends a command.
ReturnEarly(c, name, err) ==
    /\ ret' = Returned(c, name, err, NoValue)
    /\ UNCHANGED <<sessions, array, index, period, heap, apc, cur, result,
                   pc, op, s, issued, raced, tpc, wake, now, crashed>>

\* Mutant: the server goes back to its receive without sending the
\* result.
SubmitNoReply(c, o, command, T, res) ==
    /\ apc = "recv"
    /\ Install(T)
    /\ result' = res
    /\ apc' = "recv"
    /\ cur' = NoCmd
    /\ pc' = [pc EXCEPT ![c] = "wait"]
    /\ op' = [op EXCEPT ![c] = o]
    /\ UNCHANGED <<period, s, issued, ret, raced, tpc, wake, now, crashed>>

\* `s.commands <- c` met by the server's receive: the caller now waits on
\* its reply channel, the server has run the handler and is at its send.
Submit(c, o, command, T, res) ==
    /\ apc = "recv"
    /\ Install(T)
    /\ result' = res
    /\ apc' = "reply"
    /\ cur' = command
    /\ pc' = [pc EXCEPT ![c] = "wait"]
    /\ op' = [op EXCEPT ![c] = o]
    /\ UNCHANGED <<period, s, issued, ret, raced, tpc, wake, now, crashed>>

\* The callers inside a map write (mapassign or mapdelete) on map m.
Writers(m) == {d \in Callers : pc[d] = "mapw" /\ s[d].data = m}

\* The runtime stops the process: "fatal error: concurrent map writes",
\* "concurrent map read and map write".
Fatal ==
    /\ crashed' = TRUE
    /\ UNCHANGED <<sessions, array, index, period, heap, apc, cur, result,
                   pc, op, s, issued, ret, raced, tpc, wake, now>>

\* ------------------------------------------------------------- Init
Init ==
    /\ sessions = <<>>
    /\ array = <<>>
    /\ index = 0
    /\ period = Minute * defaultPeriod
    /\ heap = [m \in Refs |-> EmptyMap]
    /\ apc = "recv"
    /\ cur = NoCmd
    /\ result = ZeroSession
    /\ pc = [c \in Callers |-> "idle"]
    /\ op = [c \in Callers |-> NoOp]
    /\ s = [c \in Callers |-> ReceiverOf(ZeroSession)]
    /\ issued = {}
    /\ ret = Returned(0, "none", Nil, NoValue)
    /\ raced = {}
    /\ tpc = "start"
    /\ wake = 0
    /\ now = 0
    /\ crashed = FALSE

\* --------------------------------------------------------- Store facade
\* Store.Create(sid, maxage) up to its wait on the reply channel, with the
\* server's command.create.
\* Mutant: the validity check does not return (as in the older version
\* of the package) and the command is sent for any id.
CreateUnchecked(c, sid, maxage) ==
    /\ ~crashed
    /\ pc[c] = "idle"
    /\ LET r == create(CurTable, sid, maxage * Second, period, now,
                       NewMap(sid, Live(sessions, s, result)))
       IN /\ Submit(c, [NoOp EXCEPT !.name = "Create"],
                    [cmd |-> "create", key |-> sid,
                     maxage |-> maxage * Second, result |-> c],
                    r.tbl, r.res)
          /\ heap' = IF r.made \notin Refs THEN heap
                     ELSE [heap EXCEPT ![r.made] = EmptyMap]

Create(c, sid, maxage) ==
    /\ ~crashed
    /\ pc[c] = "idle"
    /\ IF Invalid(sid)
       THEN ReturnEarly(c, "Create", ErrPoorForm)
       ELSE LET r == create(CurTable, sid, maxage * Second, period, now,
                            NewMap(sid, Live(sessions, s, result)))
            IN /\ Submit(c, [NoOp EXCEPT !.name = "Create"],
                         [cmd |-> "create", key |-> sid,
                          maxage |-> maxage * Second, result |-> c],
                         r.tbl, r.res)
               /\ heap' = IF r.made = 0 THEN heap
                          ELSE [heap EXCEPT ![r.made] = EmptyMap]

\* Mutant: Restore sends `activate`, which command.retrieve serves.
RestoreRetrieves(c, sid) ==
    /\ ~crashed
    /\ pc[c] = "idle"
    /\ IF Invalid(sid)
       THEN ReturnEarly(c, "Restore", ErrPoorForm)
       ELSE /\ Submit(c, [NoOp EXCEPT !.name = "Restore"],
                      [cmd |-> "activate", key |-> sid, maxage |-> 0,
                       result |-> c],
                      CurTable, retrieve(CurTable, sid, 0))
            /\ heap' = heap

\* Store.Restore(sid) up to its wait, with the server's command.touch (the
\* command Restore sends is `touch`).
Restore(c, sid) ==
    /\ ~crashed
    /\ pc[c] = "idle"
    /\ IF Invalid(sid)
       THEN ReturnEarly(c, "Restore", ErrPoorForm)
       ELSE LET r == touch(CurTable, sid, now)
            IN /\ Submit(c, [NoOp EXCEPT !.name = "Restore"],
                         [cmd |-> "touch", key |-> sid, maxage |-> 0,
                          result |-> c],
                         r.tbl, r.res)
               /\ heap' = heap

\* Store.Destroy(sid) up to its wait, with the server's command.destroy.
Destroy(c, sid) ==
    /\ ~crashed
    /\ pc[c] = "idle"
    /\ IF Invalid(sid)
       THEN ReturnEarly(c, "Destroy", ErrNoSession)
       ELSE /\ Submit(c, [NoOp EXCEPT !.name = "Destroy"],
                      [cmd |-> "deactivate", key |-> sid, maxage |-> 0,
                       result |-> c],
                      cmdDestroy(CurTable, sid), ZeroSession)
            /\ heap' = Collect(heap, Live(sessions', s', result'))

\* Store.Period(t): a plain read and write of s.period by the caller.
Period(c, t) ==
    /\ ~crashed
    /\ pc[c] = "idle"
    /\ period' = t
    /\ ret' = Returned(c, "Period", Nil, period)
    /\ UNCHANGED <<sessions, array, index, heap, apc, cur, result, pc, op,
                   s, issued, raced, tpc, wake, now, crashed>>

\* ------------------------------------------------------ Session methods
\* Session.Set, Get and Del up to their wait inside Store.touch, with the
\* server's command.touch.  unbound is the error of the first check.
Access(c, se, name, key, value, unbound) ==
    /\ ~crashed
    /\ pc[c] = "idle"
    /\ IF ~se.sto \/ ~se.active
       THEN ReturnEarly(c, name, unbound)
       ELSE LET r == touch(CurTable, se.id, now)
            IN /\ Submit(c, [name |-> name, key |-> key, value |-> value],
                         [cmd |-> "touch", key |-> se.id, maxage |-> 0,
                          result |-> c],
                         r.tbl, r.res)
               /\ heap' = heap

\* Called by caller c on the Session value Handle(hid).
Set(c, hid, key, value) ==
    Access(c, Handle(hid), "Set", key, value, ErrTimedOut)
Get(c, hid, key) == Access(c, Handle(hid), "Get", key, 0, ErrPoorForm)
Del(c, hid, key) == Access(c, Handle(hid), "Del", key, 0, ErrPoorForm)

\* The error a call returns when the Session it was sent is not active.
GoneError(name) ==
    CASE name = "Create" -> ErrNoSession
      [] name = "Restore" -> ErrNoSession
      [] name = "Set" -> ErrTimedOut
      [] name = "Get" -> ErrNoSession
      [] name = "Del" -> ErrNoSession
      [] OTHER -> Nil

\* `c.result <- ...` met by the caller's receive, and the caller's code
\* up to its return or, in Set/Get/Del, up to its map operation.
Reply(c) ==
    /\ ~crashed
    /\ apc = "reply"
    /\ cur.result = c
    /\ apc' = "recv"
    /\ cur' = NoCmd
    /\ result' = ZeroSession
    /\ LET name == op[c].name
           done(err) ==
               /\ pc' = [pc EXCEPT ![c] = "idle"]
               /\ op' = [op EXCEPT ![c] = NoOp]
               /\ ret' = Returned(c, name, err, NoValue)
               /\ s' = s
       IN CASE name \in {"Create", "Restore"} ->
                 /\ done(IF result.active THEN Nil ELSE GoneError(name))
                 /\ issued' = IF result.active
                              THEN issued \cup {result.id} ELSE issued
            [] name = "Destroy" ->
                 /\ done(Nil)
                 /\ issued' = issued
            [] OTHER ->
                 /\ issued' = issued
                 /\ IF result.active
                    THEN /\ pc' = [pc EXCEPT ![c] = "map"]
                         /\ s' = [s EXCEPT ![c] = ReceiverOf(result)]
                         /\ UNCHANGED <<op, ret>>
                    ELSE done(GoneError(name))
    /\ heap' = Collect(heap, Live(sessions, s', result'))
    /\ UNCHANGED <<sessions, array, index, period, raced, tpc, wake, now,
                   crashed>>

\* The end of a Set/Get/Del call that reached its map operation.
Finish(c, err, value) ==
    /\ pc' = [pc EXCEPT ![c] = "idle"]
    /\ op' = [op EXCEPT ![c] = NoOp]
    /\ s' = [s EXCEPT ![c] = ReceiverOf(ZeroSession)]
    /\ ret' = Returned(c, op[c].name, err, value)
    /\ UNCHANGED <<sessions, array, index, period, apc, cur, result, issued,
                   tpc, wake, now, crashed>>

\* Mutant: a key that is not in the map is reported with the error for
\* a session that is gone.
MapReadNoSession(c) ==
    /\ ~crashed
    /\ pc[c] = "map"
    /\ op[c].name = "Get"
    /\ \/ /\ Writers(s[c].data) # {}
          /\ Fatal
       \/ LET v == heap[s[c].data][op[c].key]
          IN /\ Finish(c, IF v = NoValue THEN ErrNoSession ELSE Nil, v)
             /\ raced' = raced
             /\ heap' = Collect(heap, Live(sessions, s', result))

\* Session.Get: `value, ok := s.data[key]`, run by the caller.  A read
\* while another goroutine writes the same map is a data race: the
\* runtime may stop the process.
MapRead(c) ==
    /\ ~crashed
    /\ pc[c] = "map"
    /\ op[c].name = "Get"
    /\ \/ /\ Writers(s[c].data) # {}
          /\ Fatal
       \/ LET v == heap[s[c].data][op[c].key]
          IN /\ Finish(c, IF v = NoValue THEN ErrNoData ELSE Nil, v)
             /\ raced' = raced
             /\ heap' = Collect(heap, Live(sessions, s', result))

\* Session.Set and Session.Del: the caller enters `s.data[key] = value`
\* or `delete(s.data, key)`.
MapWriteBegin(c) ==
    /\ ~crashed
    /\ pc[c] = "map"
    /\ op[c].name \in {"Set", "Del"}
    /\ pc' = [pc EXCEPT ![c] = "mapw"]
    /\ raced' = IF Writers(s[c].data) # {}
                THEN raced \cup Writers(s[c].data) \cup {c}
                ELSE raced
    /\ UNCHANGED <<sessions, array, index, period, heap, apc, cur, result,
                   op, s, issued, ret, tpc, wake, now, crashed>>

\* The map after the write of caller c took effect.
Written(c) ==
    [heap EXCEPT ![s[c].data][op[c].key] =
        IF op[c].name = "Set" THEN op[c].value ELSE NoValue]

\* The caller leaves the map write and returns.  A write that overlapped
\* another write of the same map is a data race: the runtime may stop the
\* process, or the write may be lost.
MapWriteEnd(c) ==
    /\ ~crashed
    /\ pc[c] = "mapw"
    /\ \/ /\ c \in raced
          /\ Fatal
       \/ /\ c \in raced
          /\ Finish(c, Nil, NoValue)
          /\ raced' = raced \ {c}
          /\ heap' = Collect(heap, Live(sessions, s', result))
       \/ /\ Finish(c, Nil, NoValue)
          /\ raced' = raced \ {c}
          /\ heap' = Collect(Written(c), Live(sessions, s', result))

\* ---------------------------------------------------------------- timer
\* startTimer's goroutine: time.Sleep(s.period) begins.
TimerSleep ==
    /\ ~crashed
    /\ tpc = "start"
    /\ tpc' = "sleep"
    /\ wake' = now + period
    /\ UNCHANGED <<sessions, array, index, period, heap, apc, cur, result,
                   pc, op, s, issued, ret, raced, now, crashed>>

\* Mutant: the timer does not wait for the reply (`<-res` is missing) and
\* goes straight to its next sleep.
SweepNoWait ==
    /\ ~crashed
    /\ tpc = "sleep"
    /\ now >= wake
    /\ apc = "recv"
    /\ \E order \in Orders(DOMAIN sessions) :
           Install(timeout(CurTable, order, now))
    /\ apc' = "reply"
    /\ cur' = [cmd |-> "timecheck", key |-> 0, maxage |-> 0, result |-> Timer]
    /\ result' = ZeroSession
    /\ tpc' = "start"
    /\ wake' = 0
    /\ heap' = Collect(heap, Live(sessions', s, result'))
    /\ UNCHANGED <<period, pc, op, s, issued, ret, raced, now, crashed>>

\* The sleep is over and `s.commands <- c` is met by the server's receive:
\* the server runs command.timeout.
Sweep ==
    /\ ~crashed
    /\ tpc = "sleep"
    /\ now >= wake
    /\ apc = "recv"
    /\ \E order \in Orders(DOMAIN sessions) :
           Install(timeout(CurTable, order, now))
    /\ apc' = "reply"
    /\ cur' = [cmd |-> "timecheck", key |-> 0, maxage |-> 0, result |-> Timer]
    /\ result' = ZeroSession
    /\ tpc' = "wait"
    /\ wake' = 0
    /\ heap' = Collect(heap, Live(sessions', s, result'))
    /\ UNCHANGED <<period, pc, op, s, issued, ret, raced, now, crashed>>

\* Mutant: the server's send completes but the timer stays at a receive
\* (a second `<-res`), for a result that is never sent.
TimerReplyTwice ==
    /\ ~crashed
    /\ apc = "reply"
    /\ cur.result = Timer
    /\ apc' = "recv"
    /\ cur' = NoCmd
    /\ tpc' = "wait"
    /\ UNCHANGED <<sessions, array, index, period, heap, result, pc, op, s,
                   issued, ret, raced, wake, now, crashed>>

\* `c.result <- Session{}` met by the timer's `<-res`.
TimerReply ==
    /\ ~crashed
    /\ apc = "reply"
    /\ cur.result = Timer
    /\ apc' = "recv"
    /\ cur' = NoCmd
    /\ tpc' = "start"
    /\ UNCHANGED <<sessions, array, index, period, heap, result, pc, op, s,
                   issued, ret, raced, wake, now, crashed>>

\* Time passes: d seconds.
Tick(d) ==
    /\ ~crashed
    /\ now + d <= Horizon
    /\ now' = now + d
    /\ UNCHANGED <<sessions, array, index, period, heap, apc, cur, result,
                   pc, op, s, issued, ret, raced, tpc, wake, crashed>>

\* Time passes while the timer sleeps, and the sleep ends on time: d
\* seconds, not beyond the moment time.Sleep returns.
Elapse(d) ==
    /\ ~crashed
    /\ tpc = "sleep"
    /\ now + d <= wake
    /\ now + d <= ClockHorizon
    /\ now' = now + d
    /\ UNCHANGED <<sessions, array, index, period, heap, apc, cur, result,
                   pc, op, s, issued, ret, raced, tpc, wake, crashed>>

\* ------------------------------------------------------- specifications
\* The inputs of the specifications below.
TwoIds == InvalidIds \cup (Ids \ {NIds})
OneId == InvalidIds \cup {i \in Ids : \A j \in Ids : i <= j}
OneCaller == {c \in Callers : \A d \in Callers : c <= d}
OneValue == {v \in Values : \A w \in Values : v <= w}
OneKey == {k \in Keys : \A j \in Keys : k <= j}
SweepPeriod == defaultPeriod * Minute
DefaultAge == {a \in MaxAges : a = 0}
SaneAges == {a \in MaxAges : a >= 0}

\* The server, the timer and concurrent clients that create, restore and
\* destroy sessions and set the sweep period.
Next ==
    \/ \E c \in Callers, sid \in TwoIds, maxage \in DefaultAge :
           Create(c, sid, maxage)
    \/ \E c \in Callers, sid \in TwoIds : Restore(c, sid)
    \/ \E c \in Callers, sid \in TwoIds : Destroy(c, sid)
    \/ \E c \in Callers, t \in Periods : Period(c, t)
    \/ \E c \in Callers : Reply(c)
    \/ TimerSleep
    \/ Sweep
    \/ TimerReply
    \/ Tick(SweepPeriod)

Spec == Init /\ [][Next]_vars

\* The session table under one client that uses every id.
TableNext ==
    \/ \E c \in OneCaller, sid \in AnyId, maxage \in SaneAges :
           Create(c, sid, maxage)
    \/ \E c \in OneCaller, sid \in AnyId : Restore(c, sid)
    \/ \E c \in OneCaller, sid \in AnyId : Destroy(c, sid)
    \/ \E c \in Callers : Reply(c)
    \/ TimerSleep
    \/ Sweep
    \/ TimerReply
    \/ Tick(SweepPeriod)

TableSpec == Init /\ [][TableNext]_vars

\* One client that creates sessions with every kind of TTL, destroys
\* them and sets the sweep period, while time passes.
AgeNext ==
    \/ \E c \in OneCaller, sid \in TwoIds, maxage \in MaxAges :
           Create(c, sid, maxage)
    \/ \E c \in OneCaller, sid \in TwoIds : Destroy(c, sid)
    \/ \E c \in OneCaller, t \in Periods : Period(c, t)
    \/ \E c \in Callers : Reply(c)
    \/ Tick(SweepPeriod)

AgeSpec == Init /\ [][AgeNext]_vars

\* Two clients that create, restore and destroy one session id, one of
\* which also uses the Session values, and the timer; every goroutine
\* that can take a step is scheduled in the end, and a goroutine blocked
\* at a channel send is served in its turn.
LiveNext ==
    \/ \E c \in Callers, sid \in OneId, maxage \in DefaultAge :
           Create(c, sid, maxage)
    \/ \E c \in Callers, sid \in OneId : Restore(c, sid)
    \/ \E c \in Callers, sid \in OneId : Destroy(c, sid)
    \/ \E c \in OneCaller, hid \in Handles, key \in OneKey, value \in OneValue :
           Set(c, hid, key, value)
    \/ \E c \in OneCaller, hid \in Handles, key \in OneKey : Get(c, hid, key)
    \/ \E c \in OneCaller, hid \in Handles, key \in OneKey : Del(c, hid, key)
    \/ \E c \in Callers : Reply(c)
    \/ \E c \in Callers : MapRead(c)
    \/ \E c \in Callers : MapWriteBegin(c)
    \/ \E c \in Callers : MapWriteEnd(c)
    \/ TimerSleep
    \/ Sweep
    \/ TimerReply
    \/ Tick(SweepPeriod)

LiveSpec ==
    /\ Init
    /\ [][LiveNext]_vars
    /\ \A c \in Callers : WF_vars(Reply(c))
    /\ \A c \in Callers : WF_vars(MapRead(c))
    /\ \A c \in Callers : WF_vars(MapWriteBegin(c))
    /\ \A c \in Callers : WF_vars(MapWriteEnd(c))
    /\ WF_vars(TimerReply)
    /\ SF_vars(Sweep)

\* The value store of one session id under one client, which makes one
\* call at a time on the Session values it holds.
DataNext ==
    \/ \E c \in OneCaller, sid \in OneId, maxage \in MaxAges :
           Create(c, sid, maxage)
    \/ \E c \in OneCaller, sid \in OneId : Restore(c, sid)
    \/ \E c \in OneCaller, sid \in OneId : Destroy(c, sid)
    \/ \E c \in OneCaller, hid \in Handles, key \in Keys, value \in Values :
           Set(c, hid, key, value)
    \/ \E c \in OneCaller, hid \in Handles, key \in Keys : Get(c, hid, key)
    \/ \E c \in OneCaller, hid \in Handles, key \in Keys : Del(c, hid, key)
    \/ \E c \in Callers : Reply(c)
    \/ \E c \in Callers : MapRead(c)
    \/ \E c \in Callers : MapWriteBegin(c)
    \/ \E c \in Callers : MapWriteEnd(c)
    \/ TimerSleep
    \/ Sweep
    \/ TimerReply
    \/ Tick(SweepPeriod)

DataSpec == Init /\ [][DataNext]_vars

\* Concurrent clients that call Set on Session values of one id.
RaceNext ==
    \/ \E c \in Callers, sid \in OneId : Create(c, sid, 0)
    \/ \E c \in Callers, hid \in Handles, key \in Keys, value \in OneValue :
           Set(c, hid, key, value)
    \/ \E c \in Callers : Reply(c)
    \/ \E c \in Callers : MapWriteBegin(c)
    \/ \E c \in Callers : MapWriteEnd(c)

RaceSpec == Init /\ [][RaceNext]_vars

\* One session id under a clock that advances by half the sweep period
\* and a timer that wakes on time: a client that creates and touches, and
\* the sweep.
ClockNext ==
    \/ \E c \in OneCaller, sid \in OneId, maxage \in MaxAges :
           Create(c, sid, maxage)
    \/ \E c \in OneCaller, sid \in OneId : Restore(c, sid)
    \/ \E c \in Callers : Reply(c)
    \/ TimerSleep
    \/ Sweep
    \/ TimerReply
    \/ Elapse(SweepPeriod \div divisor)

ClockSpec == Init /\ [][ClockNext]_vars

\* ------------------------------------------------------------ type check
TypeOK ==
    /\ DOMAIN sessions \subseteq Ids
    /\ apc \in {"recv", "reply"}
    /\ tpc \in {"start", "sleep", "wait"}
    /\ \A c \in Callers : pc[c] \in {"idle", "wait", "map", "mapw"}
    /\ now \in 0..ClockHorizon

\* =============================================================== claims
\* The step in which the command of caller c's call `name` is taken and
\* handled by the server, and the step in which c receives the reply.
Submits(c, name) ==
    /\ pc[c] = "idle"
    /\ pc'[c] = "wait"
    /\ op'[c].name = name
Answers(c, name) ==
    /\ pc[c] = "wait"
    /\ pc'[c] # "wait"
    /\ op[c].name = name
TableSame ==
    /\ sessions' = sessions
    /\ array' = array
    /\ index' = index

\* C1: in every reachable state every id that is a key of `sessions`
\* occurs exactly once in `array`, at the position its entry's `index`
\* field names (array positions count from 0).
C1_IndexIsPosition ==
    \A id \in DOMAIN sessions :
        /\ Cardinality({i \in 1..Len(array) : array[i] = id}) = 1
        /\ sessions[id].index \in 0..(Len(array) - 1)
        /\ array[sessions[id].index + 1] = id

\* C1 witness: a Destroy of the id in the middle has been served while
\* three ids had been created; the last id now sits at position 1.
C1_Witness ==
    /\ apc = "reply"
    /\ cur.cmd = "deactivate"
    /\ Cardinality(issued) >= 3
    /\ Len(array) = 2
    /\ cur.key \notin DOMAIN sessions
    /\ \E id \in DOMAIN sessions : id > cur.key /\ sessions[id].index = 1
    /\ \E id \in DOMAIN sessions : id < cur.key /\ sessions[id].index = 0
    /\ now = 0

\* C2: in every state between two commands the length of `array`, the
\* number of keys of `sessions` and the counter `index` are equal.
C2_CountsAgree ==
    /\ Len(array) = Cardinality(DOMAIN sessions)
    /\ index = Len(array)

\* C2 witness: a sweep has removed sessions and left one in the table.
C2_Witness ==
    /\ apc = "reply"
    /\ cur.cmd = "timecheck"
    /\ Cardinality(issued) >= 3
    /\ index = 1

\* C3: concurrent Set calls on Session values of the same live id all
\* complete and none is lost: the process is never stopped, and the step
\* in which a Set on a session of the table returns leaves the value it
\* wrote under its key in that session's value store.
C3_ConcurrentSetsLand ==
    [][/\ ~crashed'
       /\ \A c \in Callers :
              (/\ pc[c] = "mapw"
               /\ pc'[c] = "idle"
               /\ op[c].name = "Set"
               /\ s[c].id \in DOMAIN sessions'
               /\ ret'.err = Nil)
              => heap'[sessions'[s[c].id].data][op[c].key] = op[c].value]_vars

\* C3 failing input: two callers are inside their map writes on the same
\* value store at once.
C3_Overlap ==
    \E c, d \in Callers :
        /\ c # d
        /\ pc[c] = "mapw"
        /\ pc[d] = "mapw"
        /\ s[c].data = s[d].data
        /\ op[c].key # op[d].key

\* C4: when the touch of a Set, Get or Del finds its id absent from the
\* table, the table is left as it was (no entry is added) and the call
\* returns an error, never success: Set the timed-out error, Get and Del
\* the no-session error.
C4_GoneSessionFails ==
    [][\A c \in Callers, name \in {"Set", "Get", "Del"} :
          /\ (Submits(c, name) /\ cur'.key \notin DOMAIN sessions)
                 => (TableSame /\ ~result'.active)
          /\ (Answers(c, name) /\ cur.key \notin DOMAIN sessions)
                 => /\ pc'[c] = "idle"
                    /\ ret'.caller = c
                    /\ ret'.op = name
                    /\ ret'.err # Nil
                    /\ ret'.err = IF name = "Set" THEN ErrTimedOut
                                  ELSE ErrNoSession
                    /\ TableSame
                    /\ heap' = heap]_vars

\* C4 witness: a Get through a Session value returned earlier has failed
\* with the no-session error; its session is no longer in the table.
C4_Witness ==
    /\ ret.op = "Get"
    /\ ret.err = ErrNoSession
    /\ issued # {}
    /\ sessions = <<>>

\* C5: Create with an id that is a key of the table changes nothing (the
\* entries, `array`, the counter and every value store stay as they
\* were) and returns an error with an inactive Session; Create fails in
\* this way only for an id already in the table.
C5_CollisionKeepsEntry ==
    [][\A c \in Callers :
          /\ (Submits(c, "Create") /\ cur'.key \in DOMAIN sessions)
                 => (TableSame /\ heap' = heap /\ ~result'.active)
          /\ (Submits(c, "Create") /\ cur'.key \notin DOMAIN sessions)
                 => result'.active
          /\ (Answers(c, "Create") /\ ~result.active)
                 => /\ ret'.caller = c
                    /\ ret'.op = "Create"
                    /\ ret'.err = ErrNoSession
                    /\ ret'.err # Nil
                    /\ issued' = issued
                    /\ TableSame
                    /\ heap' = heap]_vars

\* C5 witness: a Create has failed on an id whose session holds a value.
C5_Witness ==
    /\ ret.op = "Create"
    /\ ret.err = ErrNoSession
    /\ \E id \in DOMAIN sessions : heap[sessions[id].data] # EmptyMap

\* The value caller c's finished call left under its key.
C6_Stored(c) == IF op[c].name = "Set" THEN op[c].value ELSE NoValue

\* C6: the Session Create returns, the Session Restore returns and the
\* copy every Set, Get and Del works on all refer to the value store of
\* the table's entry for the id.  While the id is in the table that store
\* stays the same map; a Set or Del through any Session value of the id
\* changes it at the key written and nowhere else, nothing else changes
\* it, and a Get returns what it holds under the key, the no-data error
\* when it holds nothing.
C6_SameStore ==
    [][/\ \A c \in Callers :
               /\ \A name \in {"Create", "Restore", "Set", "Get", "Del"} :
                      (Submits(c, name) /\ result'.active)
                         => /\ cur'.key \in DOMAIN sessions'
                            /\ result'.data = sessions'[cur'.key].data
                            /\ (cur'.key \in DOMAIN sessions
                                   => result'.data = sessions[cur'.key].data)
               /\ \A name \in {"Set", "Get", "Del"} :
                      (Answers(c, name) /\ result.active)
                         => (pc'[c] = "map" /\ s'[c].data = result.data)
               /\ (pc[c] = "map" /\ pc'[c] = "idle"
                       /\ s[c].id \in DOMAIN sessions)
                      => LET v == heap[sessions[s[c].id].data][op[c].key]
                         IN /\ ret'.op = "Get"
                            /\ ret'.value = v
                            /\ ret'.err = IF v = NoValue THEN ErrNoData
                                          ELSE Nil
               /\ (pc[c] = "mapw" /\ pc'[c] = "idle"
                       /\ s[c].id \in DOMAIN sessions)
                      => /\ ret'.err = Nil
                         /\ heap'[sessions'[s[c].id].data] =
                               [heap[sessions[s[c].id].data]
                                   EXCEPT ![op[c].key] = C6_Stored(c)]
       /\ \A id \in DOMAIN sessions \cap DOMAIN sessions' :
             /\ sessions'[id].data = sessions[id].data
             /\ \/ heap'[sessions[id].data] = heap[sessions[id].data]
                \/ \E c \in Callers :
                      /\ pc[c] = "mapw"
                      /\ pc'[c] = "idle"
                      /\ s[c].id = id]_vars

\* C6 witness: a Get has returned a value that a Set stored, and a
\* Restore of the id is being answered with a Session that refers to the
\* store holding it.
C6_Witness ==
    /\ ret.op = "Get"
    /\ ret.err = Nil
    /\ ret.value = NValues
    /\ apc = "reply"
    /\ cur.cmd = "touch"
    /\ \E c \in Callers : pc[c] = "wait" /\ op[c].name = "Restore"
    /\ result.active
    /\ \E key \in Keys : heap[result.data][key] = NValues

\* C7: a destroy command for an id that is not in the table leaves
\* `sessions`, `array`, the counter and the value stores as they were,
\* and Destroy returns no error; after any destroy command the id is not
\* in the table, so that a second one finds it absent.
C7_DestroyAbsentNoOp ==
    [][\A c \in Callers :
          /\ (Submits(c, "Destroy") /\ cur'.key \notin DOMAIN sessions)
                 => (TableSame /\ heap' = heap)
          /\ Submits(c, "Destroy")
                 => /\ cur'.cmd = "deactivate"
                    /\ cur'.key \notin DOMAIN sessions'
                    /\ \A id \in DOMAIN sessions \ {cur'.key} :
                          id \in DOMAIN sessions'
          /\ Answers(c, "Destroy")
                 => /\ ret' = Returned(c, "Destroy", Nil, NoValue)
                    /\ TableSame]_vars

\* C7 witness: a second Destroy of an id is about to be answered; the
\* first has returned, the id is not in the table and another session is.
C7_Witness ==
    /\ apc = "reply"
    /\ cur.cmd = "deactivate"
    /\ cur.key \in issued
    /\ cur.key \notin DOMAIN sessions
    /\ ret.op = "Destroy"
    /\ ret.caller = cur.result
    /\ ret.err = Nil
    /\ Len(array) >= 1

\* The sessions that took the default TTL, half the sweep period.
C8_Defaulted == {id \in DOMAIN sessions :
                    sessions[id].maxage = period \div divisor}

\* C8: with the sweep period P unchanged, a session created with TTL 0
\* takes the TTL P/2.  Only a sweep removes it, and a sweep removes it
\* exactly when more than P/2 has passed since it was last touched: it is
\* in the table at every time up to t + P/2 and gone after the first
\* sweep later than that.  With a timer that wakes on time, that sweep
\* comes at most one period after t + P/2.
C8_DefaultTTL ==
    /\ [](\A id \in C8_Defaulted :
            now - sessions[id].modified <= period \div divisor + period)
    /\ [][/\ \A c \in Callers :
               (Submits(c, "Create") /\ cur'.maxage = 0 /\ result'.active)
                  => /\ cur'.key \in DOMAIN sessions'
                     /\ sessions'[cur'.key].maxage = period \div divisor
                     /\ sessions'[cur'.key].modified = now
          /\ \A id \in C8_Defaulted :
               IF tpc = "sleep" /\ tpc' = "wait"
               THEN id \in DOMAIN sessions'
                       <=> now - sessions[id].modified <= period \div divisor
               ELSE /\ id \in DOMAIN sessions'
                    /\ sessions'[id].maxage = sessions[id].maxage
                    /\ sessions'[id].modified >= sessions[id].modified
          /\ period' = period]_vars

\* C8 witness: the sweep at the end of the second period has just
\* removed the session, after a Restore had touched it.
C8_Witness ==
    /\ tpc = "wait"
    /\ cur.cmd = "timecheck"
    /\ now = 2 * period
    /\ issued # {}
    /\ sessions = <<>>
    /\ ret.op = "Restore"
    /\ ret.err = Nil

\* C9: a destroy command and a sweep that finds the session timed out
\* take the id out of the table.  Create with an id that is not in the
\* table succeeds: it stores an entry, the Session it returns is active
\* and refers to a new, empty value store that no Session value referred
\* to before; Create returns no error, and a Get that finds the store
\* empty returns the no-data error.
C9_ReuseStartsEmpty ==
    [][/\ \A c \in Callers :
            /\ Submits(c, "Destroy") => cur'.key \notin DOMAIN sessions'
            /\ (Submits(c, "Create") /\ cur'.key \notin DOMAIN sessions)
                   => /\ result'.active
                      /\ result'.id = cur'.key
                      /\ cur'.key \in DOMAIN sessions'
                      /\ sessions'[cur'.key].data = result'.data
                      /\ result'.data \notin Live(sessions, s, result)
                      /\ heap'[result'.data] = EmptyMap
            /\ (Answers(c, "Create") /\ result.active)
                   => /\ ret' = Returned(c, "Create", Nil, NoValue)
                      /\ result.id \in issued'
                      /\ TableSame
                      /\ heap'[result.data] = heap[result.data]
            /\ (pc[c] = "map" /\ pc'[c] = "idle"
                    /\ s[c].id \in DOMAIN sessions
                    /\ heap[sessions[s[c].id].data] = EmptyMap)
                   => ret' = Returned(c, "Get", ErrNoData, NoValue)
       /\ (tpc = "sleep" /\ tpc' = "wait")
             => \A id \in DOMAIN sessions :
                   now - sessions[id].modified > sessions[id].maxage
                      => id \notin DOMAIN sessions']_vars

\* C9 witness: a Set stored a value in a session, the sweep removed the
\* session, and a Create with the same id is being answered with an
\* active Session.
C9_Witness ==
    /\ apc = "reply"
    /\ cur.cmd = "create"
    /\ cur.key \in issued
    /\ result.active
    /\ heap[result.data] = EmptyMap
    /\ ret.op = "Set"
    /\ ret.err = Nil

\* C10: the server handles one command at a time and answers each before
\* it takes the next.  A caller (or the timer) waits exactly while the
\* server holds its command with the result not yet sent, so no command
\* is dropped and none is answered twice; the table changes only in the
\* step in which the server takes a command and runs its handler to the
\* end, and the step that sends the result leaves the table alone and
\* releases the sender of that command and nobody else.
C10_OneCommandAtATime ==
    /\ [](/\ \A c \in Callers :
               pc[c] = "wait" <=> (apc = "reply" /\ cur.result = c)
          /\ tpc = "wait" <=> (apc = "reply" /\ cur.result = Timer)
          /\ apc = "recv" <=> cur = NoCmd
          /\ apc = "reply" =>
                cur.cmd \in {"create", "touch", "deactivate", "timecheck"})
    /\ [][/\ ~TableSame => (apc = "recv" /\ apc' = "reply")
          /\ (apc = "recv" /\ apc' = "reply")
                => /\ cur' # NoCmd
                   /\ \A c \in Callers :
                         pc'[c] = IF cur'.result = c THEN "wait" ELSE pc[c]
                   /\ tpc' = IF cur'.result = Timer THEN "wait" ELSE tpc
          /\ (apc = "reply" /\ apc' = "recv")
                => /\ TableSame
                   /\ \A c \in Callers :
                         IF cur.result = c THEN pc'[c] \in {"idle", "map"}
                         ELSE pc'[c] = pc[c]
                   /\ tpc' = IF cur.result = Timer THEN "start" ELSE tpc
          /\ (apc' = apc) => (cur' = cur /\ TableSame)]_vars

\* C10 witness: the server has run a sweep that emptied the table and has
\* not yet answered the timer, while a caller is idle.
C10_Witness ==
    /\ apc = "reply"
    /\ cur.cmd = "timecheck"
    /\ tpc = "wait"
    /\ issued # {}
    /\ sessions = <<>>
    /\ \A c \in Callers : pc[c] = "idle"

\* C11: the timer sends a sweep command only at the end of a sleep, then
\* waits; it leaves the wait only when the server sends the result of
\* that sweep, and it starts a sleep only when no sweep command of its
\* own is with the server.  So at most one sweep command is outstanding,
\* however long the server takes to answer.
C11_OneSweepOutstanding ==
    [][/\ (cur'.cmd = "timecheck" /\ cur.cmd # "timecheck")
             => /\ tpc = "sleep"
                /\ now >= wake
                /\ tpc' = "wait"
                /\ cur'.result = Timer
       /\ (cur.cmd = "timecheck" /\ cur' # cur)
             => /\ tpc = "wait"
                /\ tpc' = "start"
                /\ cur' = NoCmd
       /\ (tpc # "sleep" /\ tpc' = "sleep")
             => /\ tpc = "start"
                /\ cur.cmd # "timecheck"
                /\ wake' = now + period
       /\ (tpc = "wait" /\ tpc' = "wait") => cur' = cur]_vars

\* C11 witness: the sweep command is with the server, unanswered,
\* after the clock has moved on, and the timer is still waiting.
C11_Witness ==
    /\ tpc = "wait"
    /\ apc = "reply"
    /\ cur.cmd = "timecheck"
    /\ now = SweepPeriod
    /\ sessions # <<>>

\* C12: the value store of a session in the table is read and written
\* only by the server: it changes only in a step in which the server
\* handles a command, never in a step of a caller.
C12_StoreOnlyOnServer ==
    [][\A id \in DOMAIN sessions \cap DOMAIN sessions' :
          heap'[sessions'[id].data] # heap[sessions[id].data]
             => (apc = "recv" /\ apc' = "reply")]_vars

\* C12 failing input: a caller is about to write the value store that the
\* table's entry refers to.
C12_CallerAtStore ==
    \E c \in Callers :
        /\ pc[c] = "mapw"
        /\ s[c].id \in DOMAIN sessions
        /\ s[c].data = sessions[s[c].id].data

\* C13 as claimed: Restore of a session that is in the table leaves its
\* last-modified time as it was.
C13_RestoreKeepsModified ==
    [][\A c \in Callers :
          (Submits(c, "Restore") /\ cur'.key \in DOMAIN sessions)
             => sessions'[cur'.key].modified = sessions[cur'.key].modified
      ]_vars

\* C13 as amended: Restore sends a touch command.  For a session that is
\* in the table it sets the last-modified time of the table's entry to
\* the current time, changes no other field and nothing else in the
\* table, and returns the entry as it then is.
C13_RestoreTouches ==
    [][\A c \in Callers :
          (Submits(c, "Restore") /\ cur'.key \in DOMAIN sessions)
             => /\ cur'.cmd = "touch"
                /\ sessions' = [sessions EXCEPT ![cur'.key].modified = now]
                /\ array' = array
                /\ index' = index
                /\ heap' = heap
                /\ result' = sessions'[cur'.key]]_vars

\* C13 witness: a Restore is being answered with a Session whose
\* last-modified time is later than the time of its creation.
C13_Witness ==
    /\ apc = "reply"
    /\ cur.cmd = "touch"
    /\ \E c \in Callers : pc[c] = "wait" /\ op[c].name = "Restore"
    /\ result.active
    /\ result.modified > result.created
    /\ sessions[cur.key].modified = now

\* C14: a Create of an id that is not in the table stores a session that
\* is active, has the current time as its creation and last-modified
\* time, the value of the counter before the create as its index, and as
\* its TTL the requested one when that is positive and otherwise (zero or
\* negative) half of the sweep period as it is in that step; the id is
\* appended to `array`, the counter grows by one, and Create returns the
\* stored session and no error.
C14_CreateStores ==
    [][\A c \in Callers :
          /\ (Submits(c, "Create") /\ cur'.key \notin DOMAIN sessions)
                => /\ DOMAIN sessions' = DOMAIN sessions \cup {cur'.key}
                   /\ LET e == sessions'[cur'.key]
                      IN /\ e.id = cur'.key
                         /\ e.active
                         /\ e.sto
                         /\ e.created = now
                         /\ e.modified = now
                         /\ e.index = index
                         /\ e.maxage = IF cur'.maxage > 0 THEN cur'.maxage
                                       ELSE period \div divisor
                         /\ e.maxage > 0
                         /\ result' = e
                   /\ \A id \in DOMAIN sessions : sessions'[id] = sessions[id]
                   /\ array' = Append(array, cur'.key)
                   /\ index' = index + 1
          /\ (Answers(c, "Create") /\ result.active)
                => /\ ret' = Returned(c, "Create", Nil, NoValue)
                   /\ sessions[result.id] = result]_vars

\* C14 witness: after the sweep period was set to ten minutes, a Create
\* with a negative TTL is answered with the second session of the table,
\* made at a later time, whose TTL is five minutes.
C14_Witness ==
    /\ apc = "reply"
    /\ cur.cmd = "create"
    /\ cur.maxage < 0
    /\ result.active
    /\ result.maxage = 5 * Minute
    /\ result.created = SweepPeriod
    /\ result.index = 1

\* A call of caller c returns from its first check, before any command
\* is sent.
ReturnsEarly(c, name) ==
    /\ pc[c] = "idle"
    /\ pc'[c] = "idle"
    /\ ret' # ret
    /\ ret'.caller = c
    /\ ret'.op = name

\* C16: Destroy returns an error exactly for an id that fails the
\* validity check, and that error is the one for a poorly formed id; for
\* an id that passes the check it returns no error.
C16_DestroyErrors ==
    [][\A c \in Callers :
          /\ Answers(c, "Destroy") => ret'.err = Nil
          /\ ReturnsEarly(c, "Destroy")
                => (ret'.err = ErrPoorForm /\ ret'.err # ErrNoSession)]_vars

\* C16 failing input: Destroy has returned the no-session error.
C16_NoSessionReturned ==
    /\ ret.op = "Destroy"
    /\ ret.err = ErrNoSession

\* C17: a Get that finds its session in the table and no entry for the
\* key in the value store returns no value and the no-data error; a Get
\* whose touch finds the session gone returns another error, the
\* no-session error; and a Get returns the no-data error in no other
\* case.
C17_NotFoundIsDistinct ==
    [][\A c \in Callers :
          /\ (pc[c] = "map" /\ pc'[c] = "idle" /\ op[c].name = "Get")
                => LET v == heap[s[c].data][op[c].key]
                   IN /\ ret'.caller = c
                      /\ ret'.op = "Get"
                      /\ ret'.value = v
                      /\ (v = NoValue) <=> (ret'.err = ErrNoData)
                      /\ (v # NoValue) <=> (ret'.err = Nil)
          /\ (Answers(c, "Get") /\ ~result.active)
                => /\ ret'.op = "Get"
                   /\ ret'.value = NoValue
                   /\ ret'.err = ErrNoSession
                   /\ ret'.err # ErrNoData
          /\ ReturnsEarly(c, "Get") => ret'.err # ErrNoData]_vars

\* C17 witness: a Get on a session that is in the table and holds a value
\* under another key has returned the no-data error.
C17_Witness ==
    /\ ret.op = "Get"
    /\ ret.err = ErrNoData
    /\ ret.value = NoValue
    /\ \E id \in DOMAIN sessions : heap[sessions[id].data] # EmptyMap

\* C18: Set, Get and Del on a Session value without a store reference or
\* with a false active flag return an error that is neither the error
\* the same call returns when its touch finds the session gone nor the
\* error for a poorly formed id.
C18_UnboundIsDistinct ==
    [][\A c \in Callers, name \in {"Set", "Get", "Del"} :
          ReturnsEarly(c, name)
             => /\ ret'.err # Nil
                /\ ret'.err # GoneError(name)
                /\ ret'.err # ErrPoorForm]_vars

\* C18 failing input: a Set on the zero Session has returned the error
\* that a Set on a session that is gone returns.
C18_SetUnbound ==
    /\ ret.op = "Set"
    /\ ret.err = ErrTimedOut
    /\ issued = {}

\* The ids of sequence ar that are in set keep, in the order of ar.
C19_Filter(ar, keep) == SelectSeq(ar, LAMBDA id : id \in keep)

\* C19: a destroy command for a session stored at position p removes
\* that id and no other from `sessions` and from `array`, keeps the order
\* of the remaining ids, takes one from the counter, takes one from the
\* stored index of every session that was behind p, and leaves every
\* other field of every remaining session, and the stored index of the
\* sessions before p, as they were.
C19_DestroyFrame ==
    [][\A c \in Callers :
          (Submits(c, "Destroy") /\ cur'.key \in DOMAIN sessions)
             => LET p == sessions[cur'.key].index
                    rest == DOMAIN sessions \ {cur'.key}
                IN /\ DOMAIN sessions' = rest
                   /\ array' = C19_Filter(array, rest)
                   /\ Len(array') = Len(array) - 1
                   /\ index' = index - 1
                   /\ \A id \in rest :
                         sessions'[id] =
                            [sessions[id] EXCEPT !.index =
                                IF sessions[id].index > p THEN @ - 1
                                ELSE @]]_vars

\* C19 witness: of three sessions the one stored first has been
\* destroyed; the two stored behind it have moved up.
C19_Witness ==
    /\ apc = "reply"
    /\ cur.cmd = "deactivate"
    /\ Cardinality(issued) = 3
    /\ Len(array) = 2
    /\ cur.key \notin DOMAIN sessions
    /\ cur.key = 2
    /\ array = <<3, 1>>
    /\ sessions[3].index = 0
    /\ sessions[1].index = 1

\* C20: the sessions in the table after a sweep are those that were in
\* it before and whose idle time is not greater than their TTL, in the
\* order they had in `array`, each stored at its new position and
\* otherwise unchanged, whatever the order in which the sweep visits the
\* sessions.
C20_SweepRemovesTimedOut ==
    [][(tpc = "sleep" /\ tpc' = "wait")
          => LET keep == {id \in DOMAIN sessions :
                            now - sessions[id].modified
                               <= sessions[id].maxage}
                 ar == C19_Filter(array, keep)
             IN /\ DOMAIN sessions' = keep
                /\ array' = ar
                /\ index' = Cardinality(keep)
                /\ \A i \in 1..Len(ar) :
                      sessions'[ar[i]] =
                         [sessions[ar[i]] EXCEPT !.index = i - 1]]_vars

\* C20 witness: a sweep has removed two of three sessions and has left
\* the one that a Restore touched at the time of the sweep.
C20_Witness ==
    /\ tpc = "wait"
    /\ cur.cmd = "timecheck"
    /\ Cardinality(issued) = 3
    /\ Len(array) = 1
    /\ now = SweepPeriod
    /\ sessions[array[1]].modified = now
    /\ sessions[array[1]].created = 0
    /\ ret.op = "Restore"
    /\ ret.err = Nil

\* C21: the command of a Set, Get or Del on a session that is in the
\* table is a touch, which sets the last-modified time of the table's
\* entry to the current time and changes nothing else: not another field
\* of the entry, not another session, `array`, the counter or a value
\* store.  The caller reaches its map operation only from the answer to
\* that touch, also when the Get then finds no value.
C21_AccessTouchesFirst ==
    [][\A c \in Callers :
          /\ \A name \in {"Set", "Get", "Del"} :
                (Submits(c, name) /\ cur'.key \in DOMAIN sessions)
                   => /\ cur'.cmd = "touch"
                      /\ sessions' =
                            [sessions EXCEPT ![cur'.key].modified = now]
                      /\ array' = array
                      /\ index' = index
                      /\ heap' = heap
                      /\ result' = sessions'[cur'.key]
          /\ (pc[c] # "map" /\ pc'[c] = "map")
                => /\ pc[c] = "wait"
                   /\ op[c].name \in {"Set", "Get", "Del"}
                   /\ cur.cmd = "touch"
                   /\ cur.result = c
                   /\ result.active
                   /\ s'[c].id = cur.key
          /\ (pc[c] # "mapw" /\ pc'[c] = "mapw") => pc[c] = "map"
          /\ (pc[c] = "idle" /\ pc'[c] # "idle") => pc'[c] = "wait"]_vars

\* C21 witness: a Get is at its map operation and will find no value;
\* its touch has set the last-modified time of a session created earlier
\* to the current time.
C21_Witness ==
    \E c \in Callers :
        /\ pc[c] = "map"
        /\ op[c].name = "Get"
        /\ heap[s[c].data][op[c].key] = NoValue
        /\ s[c].id \in DOMAIN sessions
        /\ sessions[s[c].id].modified = now
        /\ sessions[s[c].id].created < now
        /\ ret.op = "Create"

\* The calls of the facade and of a Session value.
C22_Calls == {"Create", "Restore", "Destroy", "Set", "Get", "Del"}

\* C22: a call that returns from its first check returns an error and
\* sends no command: the server, the table and the value stores are as
\* they were.  Every command the server takes comes from a Create,
\* Restore or Destroy with an id that passes the validity check, from a
\* Set, Get or Del on a Session value that Create or Restore returned, or
\* from the timer; no id that fails the check is ever in the table.
C22_RejectedNeverSent ==
    [][/\ \A c \in Callers, name \in C22_Calls :
            /\ ReturnsEarly(c, name)
                  => /\ ret'.err # Nil
                     /\ TableSame
                     /\ heap' = heap
                     /\ apc' = apc
                     /\ cur' = cur
            /\ Submits(c, name)
                  => /\ ~Invalid(cur'.key)
                     /\ name \in {"Set", "Get", "Del"}
                           => cur'.key \in issued
       /\ (apc = "recv" /\ apc' = "reply")
             => \/ \E c \in Callers, name \in C22_Calls : Submits(c, name)
                \/ (tpc = "sleep" /\ tpc' = "wait")
       /\ \A id \in DOMAIN sessions' : ~Invalid(id)]_vars

\* C22 witness: a Create with an id that fails the validity check has
\* returned its error while a session holding a value is in the table.
C22_Witness ==
    /\ ret.op = "Create"
    /\ ret.err = ErrPoorForm
    /\ apc = "recv"
    /\ \E id \in DOMAIN sessions : heap[sessions[id].data] # EmptyMap

C24_PeriodOnlyOnServer ==
    [][period' # period => (apc = "recv" /\ apc' = "reply")]_vars

\* C24 failing input: a caller has written the period while the timer is
\* in the sleep whose length it read from the period before.
C24_PeriodWrittenByCaller ==
    /\ ret.op = "Period"
    /\ period # ret.value
    /\ tpc = "sleep"
    /\ wake = ret.value

\* C25: the TTL of a session in the table stays what it was made at the
\* session's creation, whatever happens while the session is in the
\* table: a touch, a Restore, a Create that fails, a Destroy of another
\* session, a sweep, a change of the sweep period.
C25_MaxageFixed ==
    [][\A id \in DOMAIN sessions \cap DOMAIN sessions' :
          sessions'[id].maxage = sessions[id].maxage]_vars

\* C25 witness: a session made with the default TTL when the period was
\* twenty minutes still has it after the period was set to ten minutes,
\* a later touch and a sweep.
C25_Witness ==
    /\ apc = "reply"
    /\ cur.cmd = "timecheck"
    /\ period = 10 * Minute
    /\ \E id \in DOMAIN sessions :
          /\ sessions[id].maxage = 10 * Minute
          /\ sessions[id].created = 0
          /\ sessions[id].modified = now
          /\ now > 0

\* C26: only the sweep enforces the TTL.  A Restore, Set, Get or Del
\* whose command finds the session in the table is served however long
\* the session has been idle: it gets the active session and the idle
\* time starts again from zero.  A session leaves the table only by a
\* destroy command or a sweep, and a sweep keeps every session whose
\* idle time is then not greater than its TTL, whatever it was before.
C26_ExpiryOnlyBySweep ==
    [][/\ \A c \in Callers, name \in {"Restore", "Set", "Get", "Del"} :
            /\ (Submits(c, name) /\ cur'.key \in DOMAIN sessions)
                  => /\ result'.active
                     /\ result'.id = cur'.key
                     /\ sessions'[cur'.key].modified = now
                     /\ now - sessions'[cur'.key].modified
                           <= sessions'[cur'.key].maxage
            /\ (Answers(c, name) /\ result.active)
                  => IF name = "Restore"
                     THEN ret' = Returned(c, name, Nil, NoValue)
                     ELSE pc'[c] = "map"
       /\ \A id \in DOMAIN sessions \ DOMAIN sessions' :
            \/ /\ tpc = "sleep"
               /\ tpc' = "wait"
               /\ now - sessions[id].modified > sessions[id].maxage
            \/ \E c \in Callers : Submits(c, "Destroy") /\ cur'.key = id
       /\ (tpc = "sleep" /\ tpc' = "wait")
            => \A id \in DOMAIN sessions :
                  now - sessions[id].modified <= sessions[id].maxage
                     => id \in DOMAIN sessions']_vars

\* C26 witness: a session made at time 0 with a TTL of one second was
\* first touched a sweep period later, and the sweep that has just run
\* has kept it.
C26_Witness ==
    /\ tpc = "wait"
    /\ cur.cmd = "timecheck"
    /\ \E id \in DOMAIN sessions :
          /\ sessions[id].maxage = Second
          /\ sessions[id].created = 0
          /\ sessions[id].modified = now
          /\ now = SweepPeriod

\* C27: a Set, Get or Del names its session by the id alone.  The copy
\* it works on is the table's entry for that id as it is when the touch
\* is served, and its map operation reads or writes the value store of
\* that entry: after the id was created again that is the store the
\* second Create made, and a store that no session of the table and no
\* running call refers to holds nothing any more.
C27_HandleFollowsId ==
    /\ [](\A m \in Refs :
            heap[m] # EmptyMap => m \in Live(sessions, s, result))
    /\ [][\A c \in Callers :
            /\ \A name \in {"Set", "Get", "Del"} :
                  /\ Submits(c, name)
                        => /\ cur'.key \in issued
                           /\ result'.active <=> cur'.key \in DOMAIN sessions
                           /\ result'.active
                                 => result' = sessions'[cur'.key]
                  /\ (Answers(c, name) /\ result.active)
                        => s'[c] = ReceiverOf(sessions[cur.key])
            /\ (pc[c] \in {"map", "mapw"} /\ pc'[c] = "idle"
                    /\ s[c].id \in DOMAIN sessions)
                  => /\ s[c].data = sessions[s[c].id].data
                     /\ heap'[s[c].data] =
                           IF op[c].name = "Get" THEN heap[s[c].data]
                           ELSE [heap[s[c].data]
                                    EXCEPT ![op[c].key] = C6_Stored(c)]
                     /\ op[c].name = "Get"
                           => ret'.value = heap[s[c].data][op[c].key]]_vars

\* A Set, Get or Del that was answered before its session was destroyed
\* is about to do its map operation after the id was created again: the
\* store it holds is the removed session's, not the table entry's.
C27_StaleStore ==
    \E c \in Callers :
        /\ pc[c] \in {"map", "mapw"}
        /\ s[c].id \in DOMAIN sessions
        /\ s[c].data # sessions[s[c].id].data
=============================================================================
